---------------------------- MODULE Spec2Model ----------------------------
(***************************************************************************)
(* A model of einsteinpy.symbolic.metric.MetricTensor.                     *)
(*                                                                         *)
(* The state is the set of MetricTensor instances that exist (a heap,      *)
(* indexed by allocation order), the record of the last call a caller made *)
(* (what was called, on which instance, what came back or what was raised),*)
(* per instance how it came into being, and per instance what its first    *)
(* returning inv() returned.  Every method of the class is one action that *)
(* runs the whole method, nested calls included.                           *)
(*                                                                         *)
(* Component arrays are matrices of exact rationals <<num, den>> in lowest *)
(* terms, which is what sympy.simplify(sympy.Matrix(..).inv()) yields for  *)
(* numeric metrics.                                                        *)
(***************************************************************************)
EXTENDS Integers, Sequences, FiniteSets, TLC

VARIABLES heap, call, made, returned

vars == <<heap, call, made, returned>>

\* The largest number of instances that are alive in one behaviour.
MaxObjs == 3

-----------------------------------------------------------------------------
(* Index configurations: Python strings, kept as sequences of characters.  *)

ll == <<"l", "l">>
uu == <<"u", "u">>
ul == <<"u", "l">>
lu == <<"l", "u">>
xy == <<"x", "y">>
lll == <<"l", "l", "l">>
l1 == <<"l">>

\* The config strings callers pass: the four valid ones, a malformed one of
\* length 2, and strings of length 3 and 1.
Configs == {ll, uu, ul, lu, xy, lll, l1}

NoArg == <<>>
None == 0

-----------------------------------------------------------------------------
(* Exact rational arithmetic.                                              *)

Abs(n) == IF n < 0 THEN -n ELSE n

RECURSIVE Gcd(_, _)
Gcd(a, b) == IF b = 0 THEN a ELSE Gcd(b, a % b)

\* n/d in lowest terms with a positive denominator (d # 0).
Rat(n, d) ==
    LET g == Gcd(Abs(n), Abs(d))
        s == IF d < 0 THEN -1 ELSE 1
    IN  <<(s * n) \div g, (s * d) \div g>>

Zero == <<0, 1>>
One == <<1, 1>>

RAdd(p, q) == Rat(p[1] * q[2] + q[1] * p[2], p[2] * q[2])
RMul(p, q) == Rat(p[1] * q[1], p[2] * q[2])
RNeg(p) == <<-p[1], p[2]>>
RDiv(p, q) == Rat(p[1] * q[2], p[2] * q[1])

RECURSIVE RSum(_)
RSum(s) == IF s = <<>> THEN Zero ELSE RAdd(Head(s), RSum(Tail(s)))

-----------------------------------------------------------------------------
(* Matrices: sequences of rows.                                            *)

Dim(m) == Len(m)

\* The matrix m without row i and column j.
Minor(m, i, j) ==
    LET n == Dim(m)
        skip(k, d) == IF k < d THEN k ELSE k + 1
    IN  [r \in 1..(n - 1) |-> [c \in 1..(n - 1) |-> m[skip(r, i)][skip(c, j)]]]

RECURSIVE Det(_)
Det(m) ==
    IF Dim(m) = 0 THEN One
    ELSE RSum([j \in 1..Dim(m) |->
                 LET t == RMul(m[1][j], Det(Minor(m, 1, j)))
                 IN  IF j % 2 = 1 THEN t ELSE RNeg(t)])

\* The matrix inverse in lowest terms, for Det(m) # 0.
MatInv(m) ==
    LET n == Dim(m)
        d == Det(m)
    IN  [i \in 1..n |-> [j \in 1..n |->
           LET c == RDiv(Det(Minor(m, j, i)), d)
           IN  IF (i + j) % 2 = 0 THEN c ELSE RNeg(c)]]

MatMul(a, b) ==
    LET n == Dim(a)
    IN  [i \in 1..n |-> [j \in 1..n |->
           RSum([k \in 1..n |-> RMul(a[i][k], b[k][j])])]]

Transpose(m) == [i \in 1..Dim(m) |-> [j \in 1..Dim(m) |-> m[j][i]]]

IntMat(m) == [i \in 1..Len(m) |-> [j \in 1..Len(m) |-> <<m[i][j], 1>>]]

-----------------------------------------------------------------------------
(* Collaborators of the class that live outside metric.py.                 *)

\* einsteinpy.symbolic.helpers._change_name: the name with the context
\* appended.  A name is a string, kept as the sequence of its pieces.
change_name(name, context) == name \o context

\* BaseRelativityTensor.__init__: stores the array, the symbols, the config
\* and the name as given; it validates neither the config's characters nor
\* its length.
BaseRelativityTensor(arr, syms, config, name) ==
    [arr |-> arr, syms |-> syms, config |-> config, name |-> name]

\* BaseRelativityTensor.lorentz_transform(tm).tensor(): every index is
\* contracted with the transformation matrix, an upper index with the matrix
\* and a lower one with its inverse.  Needs Det(tm) # 0 only when an index
\* is not upper.
BaseNeedsInverse(config) == \E i \in 1..Len(config) : config[i] # "u"

\* The base transform raises when it has to invert a singular matrix.
BaseRaises(config, tm) == BaseNeedsInverse(config) /\ Det(tm) = Zero

BaseLorentzTransform(arr, config, tm) ==
    LET f(i) == IF config[i] = "u" THEN tm ELSE Transpose(MatInv(tm))
    IN  MatMul(MatMul(f(1), arr), Transpose(f(2)))

-----------------------------------------------------------------------------
(* MetricTensor.  An instance is a record; heap[i] is the i-th instance    *)
(* created, and _invmetric holds an index into heap, or None.  A method    *)
(* yields the heap it leaves, what it returned or raised, and req, the     *)
(* configs it asked change_config for.                                     *)

Ok(h, r) == [heap |-> h, ret |-> r, err |-> "none", req |-> <<>>]
Raise(h, e) == [heap |-> h, ret |-> None, err |-> e, req |-> <<>>]

\* __init__: the instance it builds, and whether the length check raises.
MetricTensor(arr, syms, config, name) ==
    LET base == BaseRelativityTensor(arr, syms, config, name)
        self == [arr |-> base.arr, syms |-> base.syms, config |-> base.config,
                 name |-> base.name, order |-> 2, invmetric |-> None]
    IN  IF Len(config) # self.order
        THEN [err |-> "ValueError", obj |-> self]
        ELSE [err |-> "none", obj |-> self]

\* The heap after a constructor call: a new instance, or none when it raised.
New(h, c) ==
    IF c.err # "none" THEN Raise(h, c.err)
    ELSE Ok(Append(h, c.obj), Len(h) + 1)

\* sympy.simplify(sympy.Matrix(self.arr.tolist()).inv()).tolist()
inverse_forgotten(arr) == arr
inverse_list(arr) == MatInv(arr)

\* change_config, the "uu" <-> "ll" branch: the inverse matrix in a new
\* instance whose _invmetric points back at self.  Matrix.inv() raises on a
\* singular matrix.
inv_met_both_sides(h, s, newconfig) ==
    IF Det(h[s].arr) = Zero THEN Raise(h, "NonInvertibleMatrixError")
    ELSE LET r == New(h, MetricTensor(inverse_list(h[s].arr), h[s].syms, newconfig,
                                      change_name(h[s].name, <<"__">> \o newconfig)))
         IN  IF r.err # "none" THEN r
             ELSE Ok([r.heap EXCEPT ![r.ret].invmetric = s, ![s].invmetric = r.ret],
                     r.ret)
inv_met_no_backref(h, s, newconfig) ==
    IF Det(h[s].arr) = Zero THEN Raise(h, "NonInvertibleMatrixError")
    ELSE New(h, MetricTensor(inverse_list(h[s].arr), h[s].syms, newconfig,
                             change_name(h[s].name, <<"__">> \o newconfig)))
inv_met(h, s, newconfig) ==
    IF Det(h[s].arr) = Zero THEN Raise(h, "NonInvertibleMatrixError")
    ELSE LET r == New(h, MetricTensor(inverse_list(h[s].arr), h[s].syms, newconfig,
                                      change_name(h[s].name, <<"__">> \o newconfig)))
         IN  IF r.err # "none" THEN r
             ELSE Ok([r.heap EXCEPT ![r.ret].invmetric = s], r.ret)

\* identity_list of change_config: 1 on the diagonal, 0 elsewhere.
identity_list_no_diagonal(dim) == [i \in 1..dim |-> [j \in 1..dim |-> Zero]]
identity_list(dim) ==
    [i \in 1..dim |-> [j \in 1..dim |-> IF i = j THEN One ELSE Zero]]

\* change_config, the "ul" / "lu" branch: the identity matrix in a new
\* instance with an empty cache.
mixed_met(h, s, newconfig) ==
    New(h, MetricTensor(identity_list(Len(h[s].syms)), h[s].syms, newconfig,
                        change_name(h[s].name, <<"__">> \o newconfig)))

\* change_config past its first test: the length check and the branches.
change_config_convert(h, s, newconfig) ==
    IF Len(newconfig) # 2 THEN Raise(h, "ValueError")
    ELSE IF (newconfig = uu /\ h[s].config = ll) \/ (newconfig = ll /\ h[s].config = uu)
    THEN inv_met(h, s, newconfig)
    ELSE IF newconfig = ul \/ newconfig = lu
    THEN mixed_met(h, s, newconfig)
    ELSE Raise(h, "ValueError")

\* change_config(newconfig) on instance s of heap h.
change_config_no_shortcut(h, s, newconfig) ==
    [change_config_convert(h, s, newconfig) EXCEPT !.req = <<newconfig>>]
change_config(h, s, newconfig) ==
    [(IF newconfig = h[s].config THEN Ok(h, s)
      ELSE change_config_convert(h, s, newconfig)) EXCEPT !.req = <<newconfig>>]

\* The config inv() asks change_config for when nothing is cached.
inv_target_always_uu(config) == uu
inv_target(config) == IF config = ll THEN uu ELSE ll

\* inv() on instance s of heap h.
inv_recomputed(h, s) ==
    LET r == change_config(h, s, inv_target(h[s].config))
    IN  IF r.err # "none" THEN r
        ELSE [r EXCEPT !.heap[s].invmetric = r.ret]
inv(h, s) ==
    IF h[s].invmetric = None
    THEN LET r == change_config(h, s, inv_target(h[s].config))
         IN  IF r.err # "none" THEN r
             ELSE [r EXCEPT !.heap[s].invmetric = r.ret]
    ELSE Ok(h, h[s].invmetric)

\* lower_config() on instance s of heap h.
lower_config_always_inv(h, s) == inv(h, s)
lower_config(h, s) ==
    IF h[s].config = ll THEN Ok(h, s) ELSE inv(h, s)

\* lorentz_transform(tm) on instance s of heap h.
lorentz_transform(h, s, tm) ==
    IF BaseRaises(h[s].config, tm)
    THEN Raise(h, "NonInvertibleMatrixError")
    ELSE New(h, MetricTensor(BaseLorentzTransform(h[s].arr, h[s].config, tm),
                             h[s].syms, h[s].config,
                             change_name(h[s].name, <<"__", "l", "t">>)))

-----------------------------------------------------------------------------
(* What callers pass.                                                      *)

\* (arr, syms) pairs, arr square with side Len(syms): an invertible and a
\* singular metric of one dimension, and a symmetric one of two.
Inputs ==
    { <<IntMat(<<<<2>>>>), <<"t">>>>,
      <<IntMat(<<<<0>>>>), <<"t">>>>,
      <<IntMat(<<<<2, 1>>, <<1, 1>>>>), <<"t", "x">>>> }

\* Transformation matrices of side n: a scaling and a singular matrix of
\* side 1, the swap of the two axes of side 2.
Transformations(n) ==
    IF n = 1 THEN {IntMat(<<<<2>>>>), IntMat(<<<<0>>>>)}
    ELSE {IntMat(<<<<0, 1>>, <<1, 0>>>>)}

DefaultName == <<"GenericMetricTensor">>

-----------------------------------------------------------------------------
(* The state machine.                                                      *)

\* call: the last call, with what it returned (ret) or raised (err) and the
\* configs it asked change_config for, directly or from inside inv().
Call(op, s, arg, r) ==
    [op |-> op, self |-> s, arg |-> arg, requested |-> r.req,
     ret |-> r.ret, err |-> r.err]

\* made[i]: the method that created instance i ("init", "change_config",
\* "inv" for a change_config run by inv(), "lorentz_transform") and the
\* instance it ran on.
Made(m, h, r, by, s) ==
    IF Len(r.heap) > Len(h) THEN Append(m, [by |-> by, from |-> s]) ELSE m

\* returned[i]: what the first inv() on instance i that returned, returned.
Returned(t, h, r, s, ranInv) ==
    LET grown == IF Len(r.heap) > Len(h) THEN Append(t, None) ELSE t
    IN  IF ranInv /\ r.err = "none" /\ t[s] = None
        THEN [grown EXCEPT ![s] = r.ret]
        ELSE grown

\* The state after the constructor call MetricTensor(arr, syms, config): one
\* instance, or none when the constructor raised.
Init ==
    \E in \in Inputs, config \in Configs :
        LET r == New(<<>>, MetricTensor(in[1], in[2], config, DefaultName)) IN
        /\ heap = r.heap
        /\ made = [i \in DOMAIN r.heap |-> [by |-> "init", from |-> None]]
        /\ returned = [i \in DOMAIN r.heap |-> None]
        /\ call = Call("init", None, config, r)

Finish(op, s, arg, r, by, ranInv) ==
    /\ Len(r.heap) <= MaxObjs
    /\ heap' = r.heap
    /\ made' = Made(made, heap, r, by, s)
    /\ returned' = Returned(returned, heap, r, s, ranInv)
    /\ call' = Call(op, s, arg, r)

ChangeConfig ==
    \E s \in DOMAIN heap, newconfig \in Configs :
        Finish("change_config", s, newconfig,
               change_config(heap, s, newconfig), "change_config", FALSE)

Inv ==
    \E s \in DOMAIN heap :
        Finish("inv", s, NoArg, inv(heap, s), "inv", TRUE)

LowerConfig ==
    \E s \in DOMAIN heap :
        Finish("lower_config", s, NoArg, lower_config(heap, s), "inv",
               heap[s].config # ll)

LorentzTransform ==
    \E s \in DOMAIN heap :
        \E tm \in Transformations(Len(heap[s].syms)) :
            \* a transform that does not raise always makes an instance
            /\ Len(heap) < MaxObjs \/ BaseRaises(heap[s].config, tm)
            /\ Finish("lorentz_transform", s, tm,
                   lorentz_transform(heap, s, tm), "lorentz_transform", FALSE)

Next == ChangeConfig \/ Inv \/ LowerConfig \/ LorentzTransform

Spec == Init /\ [][Next]_vars

-----------------------------------------------------------------------------
(* Properties.                                                             *)

Valid == {uu, ll, ul, lu}
Mixed == {ul, lu}

\* arr is the identity matrix of side n, entry by entry.
IsIdentity(arr, n) ==
    /\ Len(arr) = n
    /\ \A i \in 1..n :
         /\ Len(arr[i]) = n
         /\ \A j \in 1..n : arr[i][j] = IF i = j THEN <<1, 1>> ELSE <<0, 1>>

\* C1: once inv() has returned on an instance, every later inv() on that
\* instance returns the very same instance, asks for no conversion and
\* creates nothing, whatever change_config, lower_config or
\* lorentz_transform calls ran in between.
C1_InvReturnsCachedObject ==
    [][\A m \in DOMAIN heap :
          (call'.op = "inv" /\ call'.self = m /\ returned[m] # None)
             => /\ call'.err = "none"
                /\ call'.ret = returned[m]
                /\ call'.requested = <<>>
                /\ heap' = heap]_vars

\* A later inv() returned the instance an earlier inv() on the same receiver
\* had created, after another instance was created in between.
C1_Witness ==
    /\ call.op = "inv" /\ call.err = "none" /\ call.requested = <<>>
    /\ made[call.ret].by = "inv" /\ made[call.ret].from = call.self
    /\ call.ret = returned[call.self]
    /\ Len(heap) > call.ret

\* C2 as stated: change_config("ul") and change_config("lu") return a tensor
\* with identity components of side len(syms) and the requested config, for
\* every instance, whatever its components and its current config.
C2_MixedIsIdentityForEveryConfig ==
    (call.op = "change_config" /\ call.arg \in Mixed)
       => /\ call.err = "none"
          /\ heap[call.ret].config = call.arg
          /\ IsIdentity(heap[call.ret].arr, Len(heap[call.self].syms))

\* C2 amended: change_config("ul") and change_config("lu") on an instance
\* whose config differs from the requested one return a new instance with
\* identity components of side len(syms) and the requested config, whatever
\* the receiver's components; on an instance already in the requested config
\* they return the receiver itself.
C2_MixedIsIdentityFromOtherConfig ==
    (call.op = "change_config" /\ call.arg \in Mixed)
       => /\ call.err = "none"
          /\ heap[call.ret].config = call.arg
          /\ IF heap[call.self].config = call.arg
             THEN call.ret = call.self
             ELSE /\ call.ret # call.self
                  /\ made[call.ret] = [by |-> "change_config", from |-> call.self]
                  /\ IsIdentity(heap[call.ret].arr, Len(heap[call.self].syms))

\* change_config("ul") on a "uu" metric of two dimensions whose components
\* are not the identity.
C2_Witness ==
    /\ call.op = "change_config" /\ call.arg = ul /\ call.err = "none"
    /\ heap[call.self].config = uu
    /\ Len(heap[call.self].syms) = 2
    /\ ~IsIdentity(heap[call.self].arr, 2)
    /\ IsIdentity(heap[call.ret].arr, 2)

\* C3 as stated: change_config(x) raises a value error exactly when x differs
\* from the receiver's config and is none of "uu", "ll", "ul", "lu"; so it
\* raises for every x of another length than 2 and never for a valid x.
\* Stated for receivers whose own config is one of the four valid strings.
C3_RaisesExactlyOnInvalid ==
    (call.op = "change_config" /\ heap[call.self].config \in Valid)
       => (call.err = "ValueError"
             <=> (call.arg # heap[call.self].config /\ call.arg \notin Valid))

C5_RoundTrip ==
    /\ \A z \in DOMAIN heap :
          (/\ made[z].by = "change_config"
           /\ heap[z].config = ll
           /\ made[made[z].from].by = "change_config"
           /\ heap[made[z].from].config = uu
           /\ heap[made[made[z].from].from].config = ll)
             => LET y == made[z].from
                    m == made[y].from
                    n == Len(heap[m].syms)
                IN  /\ heap[z].arr = heap[m].arr
                    /\ IsIdentity(MatMul(heap[m].arr, heap[y].arr), n)
                    /\ IsIdentity(MatMul(heap[y].arr, heap[m].arr), n)
    /\ (/\ call.op = "change_config"
        /\ <<heap[call.self].config, call.arg>> \in {<<ll, uu>>, <<uu, ll>>}
        /\ Det(heap[call.self].arr) # <<0, 1>>)
          => /\ call.err = "none"
             /\ heap[call.ret].config = call.arg
             /\ made[call.ret] = [by |-> "change_config", from |-> call.self]

\* The round trip was made from a metric that is not its own inverse.
C5_Witness ==
    /\ call.op = "change_config" /\ call.arg = ll /\ call.err = "none"
    /\ made[call.ret].by = "change_config"
    /\ made[call.self].by = "change_config"
    /\ heap[call.self].config = uu
    /\ heap[made[call.self].from].config = ll
    /\ heap[call.ret].arr = heap[made[call.self].from].arr
    /\ heap[call.self].arr # heap[call.ret].arr

\* C6: change_config(x) with x the receiver's config returns the receiver,
\* raises nothing, creates no instance and changes no field of any instance,
\* the cached inverse included, whatever that config is.
C6_SameConfigReturnsSelf ==
    [][(call'.op = "change_config" /\ call'.arg = heap[call'.self].config)
          => /\ call'.ret = call'.self
             /\ call'.err = "none"
             /\ heap' = heap]_vars

\* change_config to its own config on an instance that has a cached inverse.
C6_Witness ==
    /\ call.op = "change_config" /\ call.err = "none"
    /\ call.arg = heap[call.self].config
    /\ call.ret = call.self
    /\ heap[call.self].invmetric # None

\* C7 as stated: every instance has a config of length 2 over {"u", "l"}, and
\* construction with a config of another length raises and yields no
\* instance.
C7_ConfigWellFormed ==
    /\ \A i \in DOMAIN heap :
          /\ Len(heap[i].config) = 2
          /\ \A k \in 1..Len(heap[i].config) : heap[i].config[k] \in {"u", "l"}
    /\ (call.op = "init" /\ Len(call.arg) # 2)
          => (call.err = "ValueError" /\ heap = <<>>)

\* C8 as stated: inv() on an instance with an empty cache and a config other
\* than "ll" asks change_config for "uu"; on a mixed config it does not fail
\* and caches and returns the result.
C8_InvRequestsUU ==
    (/\ call.op = "inv" /\ call.requested # <<>>
     /\ heap[call.self].config \in Valid \ {ll})
       => /\ call.requested = <<uu>>
          /\ heap[call.self].config \in Mixed
               => /\ call.err = "none"
                  /\ call.ret # None
                  /\ heap[call.self].invmetric = call.ret

\* C8 amended: inv() on an instance with an empty cache and a config other
\* than "ll" asks change_config for "ll"; on an instance whose config is
\* neither "ll" nor "uu" (a mixed one) that request raises a value error, so
\* inv() fails, creates nothing and leaves the cache empty.
C8_InvRequestsLL ==
    [][(/\ call'.op = "inv"
        /\ heap[call'.self].invmetric = None
        /\ heap[call'.self].config # ll)
          => /\ call'.requested = <<ll>>
             /\ heap[call'.self].config # uu
                  => /\ call'.err = "ValueError"
                     /\ call'.ret = None
                     /\ heap' = heap]_vars

\* inv() on a mixed-config instance asked for "ll" and raised.
C8_Witness ==
    /\ call.op = "inv" /\ call.err = "ValueError"
    /\ call.requested = <<ll>>
    /\ heap[call.self].config \in Mixed
    /\ heap[call.self].invmetric = None

\* C9 as stated: the cached-inverse link is bidirectional in every reachable
\* state: X._invmetric = Y implies Y._invmetric = X.
C9_LinkIsBidirectional ==
    \A x \in DOMAIN heap :
        heap[x].invmetric # None => heap[heap[x].invmetric].invmetric = x

\* C9 amended: only inv() sets the link on both sides; a "ll" <-> "uu"
\* change_config sets the new instance's _invmetric to the receiver and
\* leaves the receiver's cache alone.  X._invmetric = Y implies that Y was
\* created by X.inv() and Y._invmetric = X, or that X was created from Y by
\* change_config, directly or inside Y.inv(); hence X.inv().inv() is X
\* whenever X.inv() computed its result.
C9_LinkSetByInvIsMutual ==
    /\ \A x \in DOMAIN heap :
          heap[x].invmetric # None
             => LET y == heap[x].invmetric IN
                \/ /\ made[y] = [by |-> "inv", from |-> x]
                   /\ heap[y].invmetric = x
                \/ /\ made[x].by \in {"change_config", "inv"}
                   /\ made[x].from = y
    /\ \A y \in DOMAIN heap :
          made[y].by = "inv"
             => /\ heap[y].invmetric = made[y].from
                /\ heap[made[y].from].invmetric = y

\* X.inv() computed Y, and the link holds on both sides.
C9_Witness ==
    /\ call.op = "inv" /\ call.err = "none" /\ call.requested # <<>>
    /\ heap[call.self].invmetric = call.ret
    /\ heap[call.ret].invmetric = call.self

\* C10: no call changes arr, syms, config or name of an existing instance or
\* removes one; change_config and lorentz_transform leave every field of
\* their receiver as it was; a lorentz_transform that returns, returns a new
\* instance with the receiver's syms and config and an empty cache; and an
\* _invmetric changes only on the receiver of inv() or lower_config(), only
\* from empty, to what that call returned.
C10_ImmutableButCache ==
    [][/\ Len(heap') >= Len(heap)
       /\ \A i \in DOMAIN heap :
             /\ heap'[i].arr = heap[i].arr
             /\ heap'[i].syms = heap[i].syms
             /\ heap'[i].config = heap[i].config
             /\ heap'[i].name = heap[i].name
             /\ heap'[i].invmetric # heap[i].invmetric
                  => /\ heap[i].invmetric = None
                     /\ call'.op \in {"inv", "lower_config"}
                     /\ call'.self = i
                     /\ call'.err = "none"
                     /\ heap'[i].invmetric = call'.ret
       /\ call'.op \in {"change_config", "lorentz_transform"}
             => heap'[call'.self] = heap[call'.self]
       /\ (call'.op = "lorentz_transform" /\ call'.err = "none")
             => /\ call'.ret = Len(heap) + 1
                /\ Len(heap') = Len(heap) + 1
                /\ heap'[call'.ret].syms = heap[call'.self].syms
                /\ heap'[call'.ret].config = heap[call'.self].config
                /\ heap'[call'.ret].invmetric = None]_vars

\* A lorentz_transform of an instance that has a cached inverse returned.
C10_Witness ==
    /\ call.op = "lorentz_transform" /\ call.err = "none"
    /\ heap[call.self].invmetric # None
    /\ heap[call.ret].invmetric = None
    /\ heap[call.ret].config = heap[call.self].config

=============================================================================
